---- MODULE Spec2Model ----
(***************************************************************************)
(* A model of the concurrent web crawler of src/main.go: the crawler       *)
(* object built by NewCrawler, the goroutines running Crawler.crawl, the   *)
(* wait group of Crawler.Start, the tick channel of time.Tick and the      *)
(* report written by Crawler.saveResults.                                  *)
(*                                                                         *)
(* Strings are sequences of tokens ("http:", "//h1", "/a", "#", "top",     *)
(* " ", "%zz", ":"), so that trimming, parsing, resolving and formatting   *)
(* are computed and not assumed.  The web site that is crawled (the        *)
(* anchors of each page and the outcome of each fetch) is an input chosen  *)
(* in Init.  Title, CrawledAt and ResponseTime of PageData are not         *)
(* modelled: no step of the crawler reads them.                            *)
(***************************************************************************)
EXTENDS Integers, Sequences, FiniteSets, Bags, TLC

VARIABLES
  mainpc,       \* position of main/Start: "new", "start", "go", "wait", "save", "exit"
  input,        \* the base URL typed by the user (main.go:217)
  rps,          \* requestsPerSecond given to NewCrawler
  cfgDepth,     \* maxDepth given to NewCrawler
  site,         \* the web: URL string -> anchors of the page
  resp,         \* the web: URL string -> outcome of fetching it
  visited,      \* Crawler.visited (the keys mapped to true)
  baseURL,      \* Crawler.baseURL (parsed)
  maxDepth,     \* Crawler.maxDepth
  rateLimiter,  \* Crawler.rateLimiter: "nil" or "chan"
  tickBuf,      \* number of ticks buffered in the channel (0 or 1)
  phase,        \* clock units since the ticker last fired
  result,       \* Crawler.result
  wg,           \* the counter of the sync.WaitGroup of Start
  tasks,        \* bag of the running crawl goroutines
  now,          \* the clock, in units of 1/SubTicks of the tick period
  exitMsg,      \* what main printed last: "", "create-error", "crawl-error", "saved"
  file,         \* crawl_results.json: "absent", "truncated" or "written", and the report
  printed,      \* the number printed as "Total pages visited", -1 before
  fetchLog,     \* history: every http.Get started, in order, [url, at]
  tickLog,      \* history: number of ticks received from the channel
  okFetches,    \* history: number of fetches that returned 200 and parsed
  spawned,      \* history: number of goroutines started with go c.crawl
  saves         \* history: number of times saveResults ran

vars == << mainpc, input, rps, cfgDepth, site, resp, visited, baseURL,
           maxDepth, rateLimiter, tickBuf, phase, result, wg, tasks, now,
           exitMsg, file, printed, fetchLog, tickLog, okFetches, spawned, saves >>

----------------------------------------------------------------------------
(* Bounds of the model *)

MaxDepthBound == 2   \* maxDepth is drawn from 0..MaxDepthBound (main passes 3)
MaxFail == 1         \* at most this many pages of the site fail
SubTicks == 2        \* clock units per tick period
MaxPeriods == 4      \* the clock saturates after MaxPeriods tick periods

MaxTime == MaxPeriods * SubTicks

(* Program constants *)
DefaultRPS == 2
StatusOK == 200

----------------------------------------------------------------------------
(* Strings, URLs and the library functions the crawler calls on them *)

HasTok(s, t) == \E k \in 1..Len(s) : s[k] = t

HostTokens == {"//h1", "//h2"}

FailedURL == [ok |-> FALSE, Scheme |-> "", Host |-> "", Path |-> <<>>, Fragment |-> <<>>]

\* index of the first "#" of s, or Len(s)+1
HashAt(s) == IF HasTok(s, "#")
             THEN CHOOSE k \in 1..Len(s) : s[k] = "#" /\ \A j \in 1..(k-1) : s[j] # "#"
             ELSE Len(s) + 1

\* positions of the parts of s: the scheme is token 1 when present, the
\* authority follows it when present, the path runs up to the first "#"
SchemeLen(s) == IF Len(s) > 0 /\ s[1] = "http:" THEN 1 ELSE 0
HostLen(s) == IF Len(s) > SchemeLen(s) /\ s[SchemeLen(s) + 1] \in HostTokens
              THEN 1 ELSE 0

\* net/url.Parse: the fragment is cut off, then scheme, authority and path
\* are read; an invalid escape or a leading colon is an error.
ParseURL(s) ==
  IF HasTok(s, "%zz") \/ (Len(s) > 0 /\ s[1] = ":")
  THEN FailedURL
  ELSE [ok |-> TRUE,
        Scheme |-> IF SchemeLen(s) = 1 THEN s[1] ELSE "",
        Host |-> IF HostLen(s) = 1 THEN s[SchemeLen(s) + 1] ELSE "",
        Path |-> SubSeq(s, SchemeLen(s) + HostLen(s) + 1, HashAt(s) - 1),
        Fragment |-> SubSeq(s, HashAt(s) + 1, Len(s))]

\* (*url.URL).String
URLString(u) ==
  (IF u.Scheme # "" THEN <<u.Scheme>> ELSE <<>>)
  \o (IF u.Host # "" THEN <<u.Host>> ELSE <<>>)
  \o u.Path
  \o (IF u.Fragment # <<>> THEN <<"#">> \o u.Fragment ELSE <<>>)

\* (*url.URL).Parse(href): parse the reference, then resolve it against u
ResolveRef(u, href) ==
  LET ref == ParseURL(href)
  IN IF ~ref.ok THEN FailedURL
     ELSE IF ref.Scheme # "" THEN ref
     ELSE IF ref.Host # "" THEN [ref EXCEPT !.Scheme = u.Scheme]
     ELSE IF ref.Path = <<>> THEN [u EXCEPT !.Fragment = ref.Fragment]
     ELSE [u EXCEPT !.Path = ref.Path, !.Fragment = ref.Fragment]

RECURSIVE TrimLeft(_)
TrimLeft(s) == IF Len(s) > 0 /\ s[1] = " " THEN TrimLeft(Tail(s)) ELSE s

RECURSIVE TrimRight(_)
TrimRight(s) == IF Len(s) > 0 /\ s[Len(s)] = " "
                THEN TrimRight(SubSeq(s, 1, Len(s) - 1)) ELSE s

\* strings.TrimSpace
TrimSpace(s) == TrimRight(TrimLeft(s))

\* strings.HasPrefix(s, "#")
HasPrefixHash(s) == Len(s) > 0 /\ s[1] = "#"

----------------------------------------------------------------------------
(* The web: the inputs of a run *)

UA == <<"http:", "//h1", "/a">>
UB == <<"http:", "//h1", "/b">>
UC == <<"http:", "//h1", "/c">>
UD == <<"http:", "//h1", "/d">>
UX == <<"http:", "//h2", "/x">>

PageURLs == {UA, UB, UC, UD, UX}

Anchor(href) == [exists |-> TRUE, href |-> href]
NoHref == [exists |-> FALSE, href |-> <<>>]

\* A links to B on the same host and to X on another host
SiteScope == (UA :> <<Anchor(<<"/b">>), Anchor(UX)>>) @@ (UB :> <<>>)
             @@ (UC :> <<>>) @@ (UD :> <<>>) @@ (UX :> <<Anchor(<<"/x">>)>>)

\* the cycle A -> B -> A
SiteCycle == (UA :> <<Anchor(<<"/b">>)>>) @@ (UB :> <<Anchor(UA)>>)
             @@ (UC :> <<>>) @@ (UD :> <<>>) @@ (UX :> <<>>)

\* a page that lists the same link twice, among anchors that are skipped
SiteTwice == (UA :> <<Anchor(<<" ", "/b", " ">>), Anchor(<<"#", "top">>),
                      Anchor(<<"/b">>), NoHref>>)
             @@ (UB :> <<Anchor(<<"%zz">>), Anchor(<<" ">>), Anchor(<<"//h2", "/x">>)>>)
             @@ (UC :> <<>>) @@ (UD :> <<>>) @@ (UX :> <<>>)

\* C is linked from A and from B, and D only from C
SiteDiamond == (UA :> <<Anchor(<<"/b">>), Anchor(<<"/c">>)>>)
               @@ (UB :> <<Anchor(<<"/c">>)>>) @@ (UC :> <<Anchor(<<"/d">>)>>)
               @@ (UD :> <<>>) @@ (UX :> <<>>)

Sites == {SiteScope, SiteCycle, SiteTwice, SiteDiamond}

\* how each page fails when it is one of the failing pages
FailureOf(u) == CASE u = UA -> "neterr"
                  [] u = UB -> "status"
                  [] u = UC -> "body"
                  [] u = UD -> "status"
                  [] OTHER -> "neterr"

\* the response maps in which at most MaxFail pages of the host fail
Responses == { [u \in PageURLs |-> IF u \in down THEN FailureOf(u) ELSE "ok"] :
                 down \in {d \in SUBSET {UA, UB, UC, UD} : Cardinality(d) <= MaxFail} }

SeedInputs == {UA, <<"/a">>, <<":", "/a">>}

RPSValues == {0, DefaultRPS, 2000}

----------------------------------------------------------------------------
(* The crawler's own functions *)

\* main.go:55: time.Duration(1000/requestsPerSecond) * time.Millisecond, in
\* ms.  The float quotient is truncated to an integer; 1000/0.0 is +Inf,
\* whose conversion overflows to a duration that is not positive on every
\* architecture, which is modelled by 0.
TickPeriodMs(r) == IF r = 0 THEN 0 ELSE 1000 \div r

\* time.Tick(d): nil (a channel that never delivers) when d <= 0
TimeTick(d) == IF d <= 0 THEN "nil" ELSE "chan"

isVisited(u) == u \in visited

markVisited(u) == visited \cup {u}

isSameDomain_Always(pageURL) == TRUE
isSameDomain(pageURL) == pageURL.Host = baseURL.Host

addPageData_Overwrite(pages, data) == <<data>>
addPageData(pages, data) == Append(pages, data)

\* http.Get and goquery.NewDocumentFromReader seen from crawl:
\* "neterr" (Get fails), "status" (not 200), "body" (parse fails), "ok"
Fetch(u) ==
  IF ParseURL(u).Scheme # "http:" \/ ParseURL(u).Host = "" \/ u \notin DOMAIN resp
  THEN "neterr"
  ELSE resp[u]

StatusOf(outcome) == IF outcome = "status" THEN 500 ELSE StatusOK

\* line 90: if depth > c.maxDepth
TooDeep_OffByOne(d) == d > maxDepth + 1
TooDeep_Never(d) == FALSE
TooDeep(d) == d > maxDepth

\* lines 111, 119, 125: the three failures after which crawl returns
FetchFailed_IgnoreStatus(outcome) == outcome \in {"neterr", "body"}
FetchFailed_Never(outcome) == FALSE
FetchFailed(outcome) == outcome # "ok"

\* wg.Add(1), lines 156 and 196
Add_Skipped(n) == n
Add(n) == n + 1

\* the deferred wg.Done(), line 88
Done_Twice(n) == n - 2
Done(n) == n - 1

\* line 157: the child is crawled at depth+1
ChildDepth_Same(d) == d
ChildDepth(d) == d + 1

NewTask(u, d) == [url |-> u, depth |-> d, pc |-> "enter", i |-> 0, links |-> <<>>]

\* one goroutine t replaced by its next state; one goroutine started
Step(t, t2) == (tasks (-) SetToBag({t})) (+) SetToBag({t2})
Go(bag, u, d) == bag (+) SetToBag({NewTask(u, d)})

\* the deferred wg.Done() of crawl, and the goroutine's end
Return_NoDone(t) ==
  /\ tasks' = tasks (-) SetToBag({t})
  /\ wg' = wg
Return(t) ==
  /\ tasks' = tasks (-) SetToBag({t})
  /\ wg' = Done(wg)

Running == BagToSet(tasks)

----------------------------------------------------------------------------
(* Initial state: the process has read the base URL *)

\* the zero value of CrawlResult; the zero time.Time is 0
ZeroReport == [BaseURL |-> <<>>, MaxDepth |-> 0, StartTime |-> 0, EndTime |-> 0,
               TotalPages |-> 0, Pages |-> <<>>]

Init ==
  /\ mainpc = "new"
  /\ input \in SeedInputs
  /\ rps \in RPSValues
  /\ cfgDepth \in 0..MaxDepthBound
  /\ site \in Sites
  /\ resp \in Responses
  /\ visited = {}
  /\ baseURL = FailedURL
  /\ maxDepth = 0
  /\ rateLimiter = "nil"
  /\ tickBuf = 0
  /\ phase = 0
  /\ result = ZeroReport
  /\ wg = 0
  /\ tasks = EmptyBag
  /\ now = 1
  /\ exitMsg = ""
  /\ file = [state |-> "absent", report |-> ZeroReport]
  /\ printed = -1
  /\ fetchLog = <<>>
  /\ tickLog = 0
  /\ okFetches = 0
  /\ spawned = 0
  /\ saves = 0

world == << input, rps, cfgDepth, site, resp >>
crawlerCfg == << baseURL, maxDepth, rateLimiter >>
mainState == << mainpc, exitMsg, file, printed, saves >>

----------------------------------------------------------------------------
(* main and Start *)

NewCrawler ==
  /\ mainpc = "new"
  /\ LET parsedURL == ParseURL(input)
     IN IF ~parsedURL.ok
        THEN /\ mainpc' = "exit"
             /\ exitMsg' = "create-error"
             /\ UNCHANGED << baseURL, maxDepth, rateLimiter, phase, result >>
        ELSE /\ mainpc' = "start"
             /\ baseURL' = parsedURL
             /\ maxDepth' = cfgDepth
             /\ rateLimiter' = TimeTick(TickPeriodMs(rps))
             /\ phase' = 0
             /\ result' = [BaseURL |-> input, MaxDepth |-> cfgDepth,
                           StartTime |-> now, EndTime |-> 0,
                           TotalPages |-> 0, Pages |-> <<>>]
             /\ UNCHANGED exitMsg
  /\ UNCHANGED << world, visited, tickBuf, wg, tasks, now, file, printed,
                  fetchLog, tickLog, okFetches, spawned, saves >>

\* Start, lines 195-196: var wg sync.WaitGroup; wg.Add(1)
StartAdd ==
  /\ mainpc = "start"
  /\ mainpc' = "go"
  /\ wg' = Add(wg)
  /\ UNCHANGED << world, crawlerCfg, visited, tickBuf, phase, result, tasks, now,
                  exitMsg, file, printed, fetchLog, tickLog, okFetches, spawned,
                  saves >>

\* Start, line 197: go c.crawl(c.baseURL.String(), 0, &wg)
StartCrawl ==
  /\ mainpc = "go"
  /\ mainpc' = "wait"
  /\ tasks' = Go(tasks, URLString(baseURL), 0)
  /\ spawned' = spawned + 1
  /\ UNCHANGED << world, crawlerCfg, visited, tickBuf, phase, result, wg, now,
                  exitMsg, file, printed, fetchLog, tickLog, okFetches, saves >>

\* wg.Wait() returns when the counter is zero
WaitReturns_NoWait == TRUE
WaitReturns == wg = 0

\* Start, lines 198-200: wg.Wait(); print len(c.visited)
WaitAndPrint ==
  /\ mainpc = "wait"
  /\ WaitReturns
  /\ mainpc' = "save"
  /\ printed' = Cardinality(visited)
  /\ UNCHANGED << world, crawlerCfg, visited, tickBuf, phase, result, wg, tasks,
                  now, exitMsg, file, fetchLog, tickLog, okFetches, spawned, saves >>

\* saveResults, lines 176-177
Finalize_NoCount(r, t) == [r EXCEPT !.EndTime = t]
Finalize(r, t) == [r EXCEPT !.EndTime = t, !.TotalPages = Len(r.Pages)]

\* Start, line 203, and saveResults; outcome is what the file system does
SaveResults ==
  /\ mainpc = "save"
  /\ mainpc' = "exit"
  /\ result' = Finalize(result, now)
  /\ saves' = saves + 1
  /\ \E outcome \in {"ok", "create", "encode"} :
       /\ file' = IF outcome = "ok" THEN [state |-> "written", report |-> result']
                  ELSE IF outcome = "encode"
                       THEN [state |-> "truncated", report |-> ZeroReport]
                       ELSE file
       /\ exitMsg' = IF outcome = "ok" THEN "saved" ELSE "crawl-error"
  /\ UNCHANGED << world, crawlerCfg, visited, tickBuf, phase, wg, tasks, now,
                  printed, fetchLog, tickLog, okFetches, spawned >>

\* The runtime sends a tick to the channel of time.Tick, which holds one
\* tick; a tick sent while one is buffered is dropped.  Time is not
\* measured by this action.
Tick ==
  /\ mainpc \in {"start", "go", "wait", "save"}
  /\ rateLimiter = "chan"
  /\ tickBuf = 0
  /\ tickBuf' = 1
  /\ UNCHANGED << world, crawlerCfg, mainState, visited, phase, result, wg,
                  tasks, now, fetchLog, tickLog, okFetches, spawned >>

\* Time passes by one clock unit; every SubTicks units the runtime sends a
\* tick to the channel of time.Tick, unless one is still buffered there.
ClockTick ==
  /\ mainpc \in {"start", "go", "wait", "save"}
  /\ now' = IF now < MaxTime THEN now + 1 ELSE now
  /\ IF rateLimiter = "chan"
     THEN /\ phase' = (phase + 1) % SubTicks
          /\ tickBuf' = IF phase' = 0 THEN 1 ELSE tickBuf
     ELSE UNCHANGED << phase, tickBuf >>
  /\ UNCHANGED << world, crawlerCfg, mainState, visited, result, wg, tasks,
                  fetchLog, tickLog, okFetches, spawned >>

----------------------------------------------------------------------------
(* Crawler.crawl, one action per step of a goroutine t *)

\* lines 90-96: the depth check and the visited check
CrawlEnter(t) ==
  /\ t.pc = "enter"
  /\ IF TooDeep(t.depth) \/ isVisited(t.url)
     THEN Return(t)
     ELSE /\ tasks' = Step(t, [t EXCEPT !.pc = "tick"])
          /\ UNCHANGED wg
  /\ UNCHANGED << world, crawlerCfg, mainState, visited, tickBuf, phase, result,
                  now, fetchLog, tickLog, okFetches, spawned >>

AwaitTick_NoConsume(t) ==
  /\ t.pc = "tick"
  /\ rateLimiter = "chan"
  /\ tickBuf > 0
  /\ tickBuf' = tickBuf
  /\ tickLog' = tickLog + 1
  /\ tasks' = Step(t, [t EXCEPT !.pc = "mark"])
  /\ UNCHANGED << world, crawlerCfg, mainState, visited, phase, result, wg,
                  now, fetchLog, okFetches, spawned >>

\* line 98: <-c.rateLimiter; a nil channel never delivers
AwaitTick(t) ==
  /\ t.pc = "tick"
  /\ rateLimiter = "chan"
  /\ tickBuf > 0
  /\ tickBuf' = tickBuf - 1
  /\ tickLog' = tickLog + 1
  /\ tasks' = Step(t, [t EXCEPT !.pc = "mark"])
  /\ UNCHANGED << world, crawlerCfg, mainState, visited, phase, result, wg,
                  now, fetchLog, okFetches, spawned >>

\* lines 100-110: markVisited, url.Parse, and the start of http.Get
MarkAndGet(t) ==
  /\ t.pc = "mark"
  /\ visited' = markVisited(t.url)
  /\ IF ~ParseURL(t.url).ok
     THEN /\ Return(t)
          /\ UNCHANGED fetchLog
     ELSE /\ fetchLog' = Append(fetchLog, [url |-> t.url, at |-> now])
          /\ tasks' = Step(t, [t EXCEPT !.pc = "get"])
          /\ UNCHANGED wg
  /\ UNCHANGED << world, crawlerCfg, mainState, tickBuf, phase, result, now,
                  tickLog, okFetches, spawned >>

\* lines 110-128: http.Get returns; status check; the body is parsed
FetchReturn(t) ==
  /\ t.pc = "get"
  /\ IF FetchFailed(Fetch(t.url))
     THEN /\ Return(t)
          /\ UNCHANGED okFetches
     ELSE /\ tasks' = Step(t, [t EXCEPT !.pc = "links", !.i = 1])
          /\ okFetches' = okFetches + 1
          /\ UNCHANGED wg
  /\ UNCHANGED << world, crawlerCfg, mainState, visited, tickBuf, phase, result,
                  now, fetchLog, tickLog, spawned >>

LinkOf_NoTrim(pageURL, a) ==
  LET href == a.href
      absoluteURL == ResolveRef(ParseURL(pageURL), href)
  IN IF ~a.exists THEN <<>>
     ELSE IF href = <<>> \/ HasPrefixHash(href) THEN <<>>
     ELSE IF ~absoluteURL.ok THEN <<>>
     ELSE IF ~isSameDomain(absoluteURL) THEN <<>>
     ELSE <<URLString(absoluteURL)>>

\* lines 133-153: what one anchor adds to links: <<>> when it is skipped
LinkOf(pageURL, a) ==
  LET href == TrimSpace(a.href)
      absoluteURL == ResolveRef(ParseURL(pageURL), href)
  IN IF ~a.exists THEN <<>>
     ELSE IF href = <<>> \/ HasPrefixHash(href) THEN <<>>
     ELSE IF ~absoluteURL.ok THEN <<>>
     ELSE IF ~isSameDomain(absoluteURL) THEN <<>>
     ELSE <<URLString(absoluteURL)>>

\* lines 132-156: one iteration of doc.Find("a").Each, up to wg.Add(1) when
\* the link is to be crawled
LinkStep(t) ==
  /\ t.pc = "links"
  /\ t.i <= Len(site[t.url])
  /\ \E found \in {LinkOf(t.url, site[t.url][t.i])} :
       IF found # <<>> /\ ~isVisited(found[1])
       THEN /\ wg' = Add(wg)
            /\ tasks' = Step(t, [t EXCEPT !.pc = "spawn", !.links = t.links \o found])
       ELSE /\ tasks' = Step(t, [t EXCEPT !.i = t.i + 1, !.links = t.links \o found])
            /\ UNCHANGED wg
  /\ UNCHANGED << world, crawlerCfg, mainState, visited, tickBuf, phase, result,
                  now, fetchLog, tickLog, okFetches, spawned >>

\* line 157: go c.crawl(nextURL, depth+1, wg); nextURL is the link appended
\* last; the iteration ends
SpawnChild(t) ==
  /\ t.pc = "spawn"
  /\ tasks' = Go(Step(t, [t EXCEPT !.pc = "links", !.i = t.i + 1]),
                 t.links[Len(t.links)], ChildDepth(t.depth))
  /\ spawned' = spawned + 1
  /\ UNCHANGED << world, crawlerCfg, mainState, visited, tickBuf, phase, result,
                  wg, now, fetchLog, tickLog, okFetches >>

\* lines 162-170
PageDataOf(t) == [URL |-> t.url, Links |-> t.links, Depth |-> t.depth,
                  StatusCode |-> StatusOf(Fetch(t.url))]

\* lines 162-173: the page data is stored and the goroutine ends
Record(t) ==
  /\ t.pc = "links"
  /\ t.i > Len(site[t.url])
  /\ result' = [result EXCEPT !.Pages = addPageData(result.Pages, PageDataOf(t))]
  /\ Return(t)
  /\ UNCHANGED << world, crawlerCfg, mainState, visited, tickBuf, phase, now,
                  fetchLog, tickLog, okFetches, spawned >>

\* each step, taken by some running goroutine
Enter == \E t \in Running : CrawlEnter(t)
Await == \E t \in Running : AwaitTick(t)
Mark == \E t \in Running : MarkAndGet(t)
Respond == \E t \in Running : FetchReturn(t)
Link == \E t \in Running : LinkStep(t)
Spawn == \E t \in Running : SpawnChild(t)
Store == \E t \in Running : Record(t)

CrawlStep == Enter \/ Await \/ Mark \/ Respond \/ Link \/ Spawn \/ Store

MainStep == NewCrawler \/ StartAdd \/ StartCrawl \/ WaitAndPrint \/ SaveResults

\* The crawl without a clock: ticks arrive, time is not measured
Next == MainStep \/ CrawlStep \/ Tick

Spec == Init /\ [][Next]_vars

\* The Go scheduler runs every runnable goroutine, the runtime keeps the
\* ticker firing, and every http.Get returns.
FairSpec == Spec /\ WF_vars(MainStep) /\ WF_vars(CrawlStep) /\ WF_vars(Tick)

\* The crawl with the clock: ticks arrive every SubTicks clock units.  The
\* timed runs are those of depth 0 and 1: the seed and its children, which
\* wait for their ticks concurrently.
TimedNext == MainStep \/ CrawlStep \/ ClockTick

TimedDepths == {0, 1}

TimedInit == Init /\ cfgDepth \in TimedDepths

TimedSpec == TimedInit /\ [][TimedNext]_vars

----------------------------------------------------------------------------
(* Claims *)

RateValid == TimeTick(TickPeriodMs(rps)) = "chan"

\* the report has been written to crawl_results.json
Written == file.state = "written"

FetchedURLs == { fetchLog[n].url : n \in DOMAIN fetchLog }

\* C1: no URL is fetched more than once: no two http.Get calls of a run are
\* started for the same URL.
C1_NoURLFetchedTwice ==
  \A m, n \in DOMAIN fetchLog : m # n => fetchLog[m].url # fetchLog[n].url

\* the longest anchor list of the site
MaxAnchors == CHOOSE k \in 0..8 :
                /\ \A u \in DOMAIN site : Len(site[u]) <= k
                /\ \E u \in DOMAIN site : Len(site[u]) = k

RECURSIVE TreeSize(_, _)
\* number of nodes of the full tree of fan-out f and depth d
TreeSize(f, d) == IF d = 0 THEN 1 ELSE 1 + f * TreeSize(f, d - 1)

\* C2: with a valid rate the run terminates: every crawl goroutine ends and
\* wg.Wait returns, so that main exits; and the number of goroutines ever
\* spawned stays within the fan-out tree of depth maxDepth + 1.
C2_Terminates ==
  /\ [](RateValid => <>(mainpc = "exit" /\ tasks = EmptyBag))
  /\ [](spawned <= TreeSize(MaxAnchors, maxDepth + 1))

C2_CycleCrawled ==
  /\ mainpc = "exit"
  /\ site = SiteCycle
  /\ maxDepth = 2
  /\ Len(result.Pages) = 2
  /\ tasks = EmptyBag

\* C3: the report is finalized at most once, and only when no crawl
\* goroutine is left: from the moment Start reads len(c.visited) no goroutine
\* runs, the count printed is the final one, and the report written is the
\* final c.result.
C3_FinalizedOnceAfterAll ==
  /\ saves <= 1
  /\ saves = 1 <=> (mainpc = "exit" /\ exitMsg # "create-error")
  /\ mainpc \in {"save", "exit"} /\ exitMsg # "create-error"
       => /\ tasks = EmptyBag
          /\ wg = 0
          /\ printed = Cardinality(visited)
  /\ Written => file.report = result

C3_SavedAfterChildren ==
  /\ saves = 1
  /\ spawned >= 3
  /\ Len(result.Pages) >= 2
  /\ Written

Pages == result.Pages

RecordedURLs == { Pages[k].URL : k \in DOMAIN Pages }

\* C4: every recorded page has Depth <= maxDepth, and with maxDepth = 0 the
\* report holds at most one page, the one of the seed URL.
C4_DepthBound ==
  /\ \A k \in DOMAIN Pages : Pages[k].Depth <= maxDepth
  /\ maxDepth = 0 =>
       /\ Len(Pages) <= 1
       /\ \A k \in DOMAIN Pages : Pages[k].URL = URLString(baseURL)

C4_SeedOnlyAtDepthZero ==
  /\ mainpc = "exit"
  /\ maxDepth = 0
  /\ spawned >= 3
  /\ Len(Pages) = 1
  /\ Pages[1].Links # <<>>

HostOf(u) == ParseURL(u).Host

\* C5: every crawl goroutine runs for a URL of the seed's host, so that
\* every URL marked visited, fetched or recorded is on the seed's host.
C5_OnlySeedHost ==
  /\ \A t \in Running : HostOf(t.url) = baseURL.Host
  /\ \A u \in visited : HostOf(u) = baseURL.Host
  /\ \A u \in FetchedURLs : HostOf(u) = baseURL.Host
  /\ \A u \in RecordedURLs : HostOf(u) = baseURL.Host

C5_SameHostCrawledOtherHostNot ==
  /\ mainpc = "exit"
  /\ site = SiteScope
  /\ \E k \in DOMAIN Pages : Pages[k].URL = UB /\ Pages[k].Depth = 1
  /\ \E k \in DOMAIN Pages : Pages[k].URL = UA
  /\ UX \notin visited

RECURSIVE Discovered(_, _, _)
\* the links of the anchors as, as found on page pageURL: those whose
\* trimmed href is not empty, is not a fragment and resolves; when
\* inScopeOnly, only those on the seed's host
Discovered(pageURL, as, inScopeOnly) ==
  IF as = <<>> THEN <<>>
  ELSE LET a == Head(as)
           h == TrimSpace(a.href)
           r == ResolveRef(ParseURL(pageURL), h)
           keep == /\ a.exists
                   /\ h # <<>>
                   /\ ~HasPrefixHash(h)
                   /\ r.ok
                   /\ inScopeOnly => r.Host = baseURL.Host
       IN (IF keep THEN <<URLString(r)>> ELSE <<>>)
          \o Discovered(pageURL, Tail(as), inScopeOnly)

C7_OnlySuccessfulFetchesRecorded ==
  /\ \A k \in DOMAIN Pages :
       /\ Pages[k].StatusCode = StatusOK
       /\ Fetch(Pages[k].URL) = "ok"
  /\ Len(Pages) <= okFetches

C7_FailedFetchNotRecorded ==
  /\ mainpc = "exit"
  /\ \E u \in FetchedURLs : Fetch(u) = "status"
  /\ \E u \in FetchedURLs : Fetch(u) = "ok"
  /\ Len(Pages) >= 1

\* the goroutines between a successful fetch and their addPageData
Collecting == { t \in Running : t.pc \in {"links", "spawn"} }
NumCollecting == BagCardinality([t \in Collecting |-> tasks[t]])

\* C8: no record is lost and failures are isolated: every fetch that
\* succeeded has its PageData in the report or its goroutine is still
\* collecting links; a run with a valid rate is never stuck before main
\* exits; and the finalized report has one PageData per successful fetch,
\* whichever pages failed.
C8_NoRecordLost ==
  /\ Len(Pages) + NumCollecting = okFetches
  /\ RateValid /\ mainpc # "exit" => ENABLED Next
  /\ saves = 1 =>
       /\ Len(Pages) = okFetches
       /\ \A u \in FetchedURLs : Fetch(u) = "ok" <=> u \in RecordedURLs

C8_OthersRecordedDespiteFailure ==
  /\ saves = 1
  /\ site = SiteDiamond
  /\ \E u \in FetchedURLs : Fetch(u) # "ok"
  /\ Len(Pages) >= 3

\* C9: in the finalized report TotalPages is the number of entries of
\* Pages and EndTime is not earlier than StartTime, in c.result after
\* saveResults and in the file it wrote.
C9_ReportIntegrity ==
  /\ saves = 1 =>
       /\ result.TotalPages = Len(result.Pages)
       /\ result.EndTime >= result.StartTime
  /\ Written =>
       /\ file.report.TotalPages = Len(file.report.Pages)
       /\ file.report.EndTime >= file.report.StartTime

C9_ReportWritten ==
  /\ Written
  /\ file.report.TotalPages >= 2
  /\ file.report.EndTime > file.report.StartTime

\* the goroutines that received their tick and have not started http.Get
Admitted == { t \in Running : t.pc = "mark" }
NumAdmitted == BagCardinality([t \in Admitted |-> tasks[t]])

\* every fetch start follows a tick received by its goroutine, and a tick
\* is received by one goroutine only: no more ticks are received than the
\* ticker has sent, one per tick period
OneTickPerFetch ==
  /\ Len(fetchLog) + NumAdmitted = tickLog
  /\ now < MaxTime => tickLog * SubTicks <= now - result.StartTime

\* C10 as claimed: one tick per fetch start, and the N-th fetch start is at
\* least (N-1) tick periods after the first one.
C10_PeriodsSinceFirstFetch ==
  /\ OneTickPerFetch
  /\ \A n \in DOMAIN fetchLog :
       fetchLog[n].at < MaxTime =>
         fetchLog[n].at - fetchLog[1].at >= (n - 1) * SubTicks

\* C10 as amended: one tick per fetch start, and the N-th fetch start is at
\* least N tick periods after the tick source was created (measured from
\* the first fetch start the bound fails: a tick is buffered while no
\* goroutine waits, and a goroutine may start its fetch any time after it
\* received its tick).
C10_RateCeiling ==
  /\ OneTickPerFetch
  /\ \A n \in DOMAIN fetchLog :
       fetchLog[n].at < MaxTime =>
         fetchLog[n].at >= result.StartTime + n * SubTicks

C10_BufferedTickBurst ==
  /\ Len(fetchLog) >= 3
  /\ fetchLog[3].at < MaxTime
  /\ fetchLog[3].at - fetchLog[1].at < 2 * SubTicks

\* the seed is a parseable absolute URL, and requestsPerSecond is > 0
SeedAbsolute == /\ ParseURL(input).ok
                /\ ParseURL(input).Scheme # ""
                /\ ParseURL(input).Host # ""
ConfigValid == SeedAbsolute /\ rps > 0

\* C11: a configuration error is fatal before any work starts: when the seed
\* is not a parseable absolute URL or requestsPerSecond is not > 0, NewCrawler
\* fails, main exits with the creation error, no crawl goroutine is counted
\* or started, nothing is marked visited, no tick is received, nothing is
\* fetched and no report is written.
C11_ConfigErrorsFatal ==
  ~ConfigValid /\ mainpc # "new" =>
    /\ mainpc = "exit"
    /\ exitMsg = "create-error"
    /\ wg = 0
    /\ spawned = 0
    /\ visited = {}
    /\ tickLog = 0
    /\ fetchLog = <<>>
    /\ file.state = "absent"

NumTasks == BagCardinality(tasks)

\* the goroutines that called wg.Add(1) and have not yet started the child
Spawning == { t \in Running : t.pc = "spawn" }
NumSpawning == BagCardinality([t \in Spawning |-> tasks[t]])

\* C12: the wait-group count is incremented before the goroutine it accounts
\* for is started: at every go statement the count already exceeds the number
\* of running goroutines, so the count is positive while a crawl goroutine
\* runs or is about to be started, and wg.Wait returns only when none is
\* left.
C12_CountedBeforeSpawned ==
  /\ [][NumTasks' > NumTasks => wg' = wg /\ wg > NumTasks]_vars
  /\ [](tasks # EmptyBag \/ mainpc = "go" => wg > 0)
  /\ [](wg >= NumTasks)
  /\ [][mainpc = "wait" /\ mainpc' # "wait" => tasks = EmptyBag /\ wg = 0]_vars

\* a parent has counted its next child and not started it, after another
\* goroutine has already ended
C12_AddedNotYetSpawned ==
  /\ mainpc = "wait"
  /\ Spawning # {}
  /\ wg = NumTasks + 1
  /\ spawned > NumTasks

\* C13: a crawl goroutine started with depth > maxDepth does nothing but its
\* wg.Done(): it never gets past the depth check, and the step in which it
\* ends decrements the count by one and leaves the visited set, the result,
\* the tick channel and the counts of ticks received, fetches and spawned
\* goroutines unchanged.
C13_TooDeepIsNoOp ==
  /\ [](\A t \in Running : t.depth > maxDepth => t.pc = "enter")
  /\ [][\A t \in Running :
          t.depth > maxDepth /\ tasks' = tasks (-) SetToBag({t}) =>
            /\ wg' = wg - 1
            /\ UNCHANGED << visited, result, tickBuf, tickLog, fetchLog,
                            okFetches, spawned >>]_vars

\* with maxDepth = 0 the child of the seed has run and ended: one URL is
\* visited, one tick was received and one fetch was made, by the seed
C13_DeepChildLeftNoTrace ==
  /\ mainpc = "exit"
  /\ maxDepth = 0
  /\ site = SiteScope
  /\ spawned = 2
  /\ visited = {UA}
  /\ tickLog = 1
  /\ Len(fetchLog) = 1
  /\ RecordedURLs = {UA}

\* C14: no tick is spent on a URL that is already claimed: a goroutine that
\* has received its tick (and is about to call markVisited) holds a URL that
\* no other goroutine has marked visited or fetched, and it is the only
\* goroutine holding a tick for that URL.
C14_TickOnlyForUnclaimedURL ==
  \A t \in Admitted :
    /\ t.url \notin visited
    /\ t.url \notin FetchedURLs
    /\ \A o \in Admitted : o.url = t.url => o = t /\ tasks[t] = 1

\* u has been marked visited and its fetch has returned 200 with a body
\* that parsed
FetchedOK(u) == u \in visited /\ u \in FetchedURLs /\ Fetch(u) = "ok"

\* C15: the ordering is causal: a goroutine that collects links (and may
\* spawn) has marked its URL visited and its fetch has succeeded; every child
\* is started by such a parent, for a link of the parent, at the parent's
\* depth + 1; and a PageData is appended only for a URL whose fetch has
\* completed successfully.
C15_CausalOrder ==
  /\ [](\A t \in Collecting : FetchedOK(t.url))
  /\ [][NumTasks' > NumTasks /\ mainpc = "wait" =>
          \E t \in Spawning :
            /\ FetchedOK(t.url)
            /\ \E c \in BagToSet(tasks') :
                 /\ CopiesIn(c, tasks') > CopiesIn(c, tasks)
                 /\ c = NewTask(t.links[Len(t.links)], t.depth + 1)]_vars
  /\ [][Len(Pages') > Len(Pages) =>
          /\ Len(Pages') = Len(Pages) + 1
          /\ FetchedOK(Pages'[Len(Pages')].URL)
          /\ SubSeq(Pages', 1, Len(Pages)) = Pages]_vars

\* a child's record is in the report while its parent still collects links
C15_ChildRecordedBeforeParent ==
  /\ Len(Pages) >= 1
  /\ Pages[1].Depth = 1
  /\ \E t \in Collecting : t.depth = 0 /\ Pages[1].URL = t.links[1]

\* the goroutines counted by wg.Add(1) and not yet started
NumPending == NumSpawning + (IF mainpc = "go" THEN 1 ELSE 0)

\* C16: every crawl goroutine decrements the wait group exactly once,
\* whichever way it ends: the step that ends a goroutine ends one and takes
\* one off the count, and in every state the count is not negative and is
\* the number of goroutines counted by Add that have not finished (those
\* running and those counted but not yet started).
C16_CountIsUnfinishedTasks ==
  /\ [](wg >= 0)
  /\ [](wg = NumTasks + NumPending)
  /\ [][NumTasks' < NumTasks => NumTasks' = NumTasks - 1 /\ wg' = wg - 1]_vars

\* a finished run in which goroutines ended by success, by a failed fetch
\* and before the tick (too deep or already visited)
C16_AllExitsCounted ==
  /\ mainpc = "exit"
  /\ wg = 0
  /\ spawned >= 4
  /\ spawned > tickLog
  /\ Len(fetchLog) > okFetches
  /\ Len(Pages) >= 1

\* the run is complete: wg.Wait has returned
Completed == mainpc \in {"save", "exit"} /\ exitMsg # "create-error"

\* C17: the final report holds no two PageData with the same URL.
C17_NoDuplicateRecords ==
  Completed =>
    \A j, k \in DOMAIN Pages : j # k => Pages[j].URL # Pages[k].URL

\* the URLs marked visited that have no record: their fetch or parse failed
FailedClaims == { u \in visited : ~ParseURL(u).ok \/ Fetch(u) # "ok" }

\* C18: at the end of the run the number of recorded pages is at most the
\* number of visited URLs, the difference being the number of visited URLs
\* whose fetch or parse failed, and the number printed as "Total pages
\* visited" is not smaller than total_pages.
C18_PagesWithinVisited ==
  /\ Completed =>
       /\ Len(Pages) <= Cardinality(visited)
       /\ Cardinality(visited) - Len(Pages) = Cardinality(FailedClaims)
  /\ saves = 1 => printed >= result.TotalPages

\* the in-domain links of page u, as a set
LinkSet(u) ==
  IF u \in DOMAIN site
  THEN { Discovered(u, site[u], TRUE)[k] : k \in DOMAIN Discovered(u, site[u], TRUE) }
  ELSE {}

RECURSIVE Within(_)
\* the URLs whose shortest link distance from the seed is at most d
Within(d) ==
  IF d = 0 THEN {URLString(baseURL)}
  ELSE Within(d - 1) \cup UNION { LinkSet(u) : u \in Within(d - 1) }

\* C19: the crawl is complete up to maxDepth: when every fetch succeeds, at
\* the end of the run every in-domain URL whose shortest link distance from
\* the seed is <= maxDepth has been fetched and has a PageData in the report.
C19_CompleteToDepth ==
  Completed /\ (\A u \in Within(maxDepth) : Fetch(u) = "ok") =>
    \A u \in Within(maxDepth) : u \in FetchedURLs /\ u \in RecordedURLs

\* s holds the URL u
Lists(s, u) == \E n \in DOMAIN s : s[n] = u

\* C20: the recorded depths form a discovery tree: a record at depth 0 is
\* the seed's, and every record at depth d > 0 has a parent at depth d-1
\* whose links hold its URL, in the report at the end of the run (during the
\* run the parent may still be collecting links).
C20_DepthTree ==
  /\ \A k \in DOMAIN Pages :
       /\ Pages[k].Depth >= 0
       /\ Pages[k].Depth = 0 => Pages[k].URL = URLString(baseURL)
       /\ Pages[k].Depth > 0 =>
            \/ \E j \in DOMAIN Pages :
                 /\ Pages[j].Depth = Pages[k].Depth - 1
                 /\ Lists(Pages[j].Links, Pages[k].URL)
            \/ /\ ~Completed
               /\ \E t \in Collecting :
                    /\ t.depth = Pages[k].Depth - 1
                    /\ Lists(t.links, Pages[k].URL)
  /\ Written => file.report.Pages = Pages

\* the final report holds a chain seed, child, grandchild
C20_ThreeLevelsRecorded ==
  /\ Written
  /\ \E i, j, k \in DOMAIN Pages :
       /\ Pages[i].Depth = 0
       /\ Pages[j].Depth = 1 /\ Lists(Pages[i].Links, Pages[j].URL)
       /\ Pages[k].Depth = 2 /\ Lists(Pages[j].Links, Pages[k].URL)

====
